---- MODULE Spec2Model ----
(***************************************************************************)
(* Model of hono-zod-asyncapi: the channel Registry (src/src/registry.ts)  *)
(* and the document generator that reads it.                               *)
(*                                                                         *)
(* Text that the code concatenates (channel ids, operation ids, message    *)
(* keys) is a sequence of one-character strings, so that template literals *)
(* are modelled by concatenation.  An optional value (T | undefined) is    *)
(* the empty sequence None or the one-element sequence Some(v).            *)
(***************************************************************************)
EXTENDS Integers, Sequences, FiniteSets, TLC

VARIABLES
  reg,        \* the two Registry instances: ordered channels Map and operationCounter
  allocated,  \* per registry, the operationIds it has allocated since construction or clear()
  cleared,    \* per registry, TRUE from a clear() until the registry next allocates an operationId
  view,       \* the Map a caller obtained from getAllChannels() and still holds
  last,       \* the call just made, its arguments, and the entry a registration replaced
  ret,        \* what that call returned
  raised,     \* TRUE once a call has thrown
  kept,       \* the options object a caller of generate kept to pass it again
  apps        \* the apps: the Registry each one refers to, its routes, its methods

vars == <<reg, allocated, cleared, view, last, ret, raised, kept, apps>>

----------------------------------------------------------------------------
(* Bounds *)

\* registrations on registry "a" stop once its operationCounter would pass this
MaxCounter == 2

\* the same for registry "b"
MaxSubCounter == 1

\* object schemas offered to the translator have at most this many fields
MaxFields == 2

----------------------------------------------------------------------------
(* Optional values and text *)

None == <<>>

Some(v) == <<v>>

Present(o) == o # None

Digits == <<"0", "1", "2", "3", "4", "5", "6", "7", "8", "9">>

\* Number-to-string conversion of a non-negative integer in a template literal
RECURSIVE ToDecimal(_)
ToDecimal(n) ==
  IF n < 10 THEN <<Digits[n + 1]>>
  ELSE ToDecimal(n \div 10) \o <<Digits[(n % 10) + 1]>>

SendText == <<"s", "e", "n", "d">>

ReceiveText == <<"r", "e", "c", "e", "i", "v", "e">>

DirText(dir) == IF dir = "send" THEN SendText ELSE ReceiveText

Directions == <<"send", "receive">>

----------------------------------------------------------------------------
(* Validation schemas and channel configurations offered to the registry *)

ZString == [typeName |-> "ZodString", description |-> None, openapi |-> None]

ZMessageObject ==
  [typeName |-> "ZodObject", description |-> None, openapi |-> None,
   shape |-> <<[key |-> "message", schema |-> ZString]>>]

MsgPayload ==
  [payload |-> Some(ZMessageObject), headers |-> None, contentType |-> None,
   name |-> None, summary |-> Some("Test summary"), description |-> Some("Test description")]

MsgHeaders ==
  [payload |-> Some(ZString), headers |-> Some(ZMessageObject), contentType |-> Some("text/plain"),
   name |-> Some("m"), summary |-> None, description |-> None]

CfgNeither ==
  [path |-> "/test", description |-> None, send |-> None, receive |-> None,
   servers |-> None, tags |-> None]

CfgSend ==
  [path |-> "/chat/:roomId", description |-> Some("chat"), send |-> Some(MsgPayload),
   receive |-> None, servers |-> None, tags |-> Some(<<"test-tag">>)]

CfgBoth ==
  [path |-> "/test", description |-> None, send |-> Some(MsgHeaders),
   receive |-> Some(MsgPayload), servers |-> None, tags |-> None]

\* channel ids; one of them ends like a sequence number
ChannelIds == {<<"x">>, <<"x", "_", "0">>}

Handler == Some("handler")

\* The registries: "a" is the one merged into, "b" the one merged from, "c"
\* the one that the constructor call inside basePath() creates
RegNames == {"a", "b", "c"}

\* the registerChannel calls the callers make
Registrations ==
  ({"a"} \X ChannelIds \X {<<CfgNeither, None>>, <<CfgSend, Handler>>, <<CfgBoth, Handler>>})
  \cup ({"b"} \X ChannelIds \X {<<CfgSend, None>>})

Info == [title |-> "Test API", version |-> "1.0.0"]

ExternalMessage ==
  [contentType |-> "application/json", name |-> Some("external"), summary |-> None,
   description |-> None, payload |-> None, headers |-> None]

\* options without servers and components
OptionsPlain == [info |-> Info, servers |-> None, components |-> None]

\* options with servers and with components that bring a message of their own
OptionsFull ==
  [info |-> Info,
   servers |-> Some([production |-> [host |-> "localhost:3000", protocol |-> "ws",
                                     description |-> "WebSocket server"]]),
   components |-> Some([schemas |-> None,
                        messages |-> Some(<<[key |-> <<"e", "x", "t">>,
                                             value |-> ExternalMessage]>>),
                        undefinedKeys |-> {}])]

GeneratorOptions == {OptionsPlain, OptionsFull}

\* a message without payload and headers
MsgBare ==
  [payload |-> None, headers |-> None, contentType |-> None,
   name |-> None, summary |-> None, description |-> Some("ping")]

\* send without payload, receive with one
CfgMixed ==
  [path |-> "/mixed", description |-> None, send |-> Some(MsgBare),
   receive |-> Some(MsgPayload), servers |-> Some(<<"production">>), tags |-> None]

\* options whose components bring a schema of their own
OptionsOwnSchemas ==
  [info |-> Info, servers |-> None,
   components |-> Some([schemas |-> Some(<<[key |-> <<"U", "s", "e", "r">>,
                                            value |-> [type |-> "string"]]>>),
                        messages |-> None,
                        undefinedKeys |-> {}])]

\* options whose components are { schemas: undefined, messages: undefined }
OptionsUndefined ==
  [info |-> Info, servers |-> None,
   components |-> Some([schemas |-> None, messages |-> None,
                        undefinedKeys |-> {"schemas", "messages"}])]

\* the generate calls and the registrations before them that exercise the generator
AllGeneratorOptions == GeneratorOptions \cup {OptionsOwnSchemas, OptionsUndefined}

GeneratorRegistrations ==
  {"a"} \X ChannelIds \X {<<CfgSend, Handler>>, <<CfgBoth, Handler>>, <<CfgMixed, None>>}

\* the registries the callers clear
Clears == {"a"}

CounterBound(r) == IF r = "a" THEN MaxCounter ELSE MaxSubCounter

\* the merge(other) calls the callers make: <<this, other>>
Merges == {<<"a", "b">>, <<"a", "a">>}

----------------------------------------------------------------------------
(* The channels Map: entries in insertion order, one slot per key *)

MapKeys(m) == [i \in 1..Len(m) |-> m[i].id]

MapHas(m, id) == \E i \in 1..Len(m) : m[i].id = id

\* Map.get: the entry, or undefined
MapGet(m, id) ==
  IF MapHas(m, id) THEN Some((CHOOSE s \in {m[i] : i \in 1..Len(m)} : s.id = id).entry)
  ELSE None

\* (variant: set always adds a slot)
MapSetAppend(m, id, entry) == Append(m, [id |-> id, entry |-> entry])

\* Map.set: an existing key keeps its position, a new key goes last
MapSet(m, id, entry) ==
  IF MapHas(m, id)
  THEN [i \in 1..Len(m) |-> IF m[i].id = id THEN [id |-> id, entry |-> entry] ELSE m[i]]
  ELSE Append(m, [id |-> id, entry |-> entry])

----------------------------------------------------------------------------
(* AsyncAPIRegistry *)

NewRegistry == [channels |-> <<>>, operationCounter |-> 0]

\* (variant: the counter is read but never advanced)
PostIncrementStuck(c) == [value |-> c, counter |-> c]

\* (variant: ++this.operationCounter, the advanced value is used)
PreIncrement(c) == [value |-> c + 1, counter |-> c + 1]

\* this.operationCounter++ : the value used and the counter afterwards
PostIncrement(c) == [value |-> c, counter |-> c + 1]

\* (variant: the id is made of the direction and the number only)
OperationIdWithoutChannel(dir, id, n) == DirText(dir) \o <<"_">> \o ToDecimal(n)

\* `${dir}_${id}_${n}`
OperationId(dir, id, n) == DirText(dir) \o <<"_">> \o id \o <<"_">> \o ToDecimal(n)

\* (variant: the blocks are entered without testing the direction)
HasDirectionUnchecked(config, dir) == TRUE

\* if (config.send) / if (config.receive)
HasDirection(config, dir) == Present(config[dir])

OperationMetadata(dir, id, message, tags, n) ==
  [operationId |-> OperationId(dir, id, n),
   summary |-> message.summary,
   description |-> message.description,
   tags |-> tags]

\* One of the two if-blocks of registerChannel, entered with counter c.
\* Reading a property of an undefined message descriptor throws, after the
\* counter was read and incremented for the operationId.
BuildOperation(dir, id, config, c) ==
  IF ~HasDirection(config, dir)
  THEN [operation |-> None, ids |-> <<>>, counter |-> c, threw |-> FALSE]
  ELSE LET inc == PostIncrement(c) IN
       IF config[dir] = None
       THEN [operation |-> None, ids |-> <<>>, counter |-> inc.counter, threw |-> TRUE]
       ELSE LET meta == OperationMetadata(dir, id, config[dir][1], config.tags, inc.value) IN
            [operation |-> Some(meta), ids |-> <<meta.operationId>>,
             counter |-> inc.counter, threw |-> FALSE]

\* (variant: the ids are allocated in the call, the entry is stored later)
registerChannelUnstored(R, id, config, handler) ==
  LET s == BuildOperation("send", id, config, R.operationCounter)
      r == BuildOperation("receive", id, config, s.counter)
  IN  [registry |-> [R EXCEPT !.operationCounter = r.counter],
       ids |-> s.ids \o r.ids,
       threw |-> FALSE]

\* registerChannel(id, config, handler) on registry R: the registry afterwards,
\* the operationIds allocated in allocation order, and whether it threw
registerChannel(R, id, config, handler) ==
  LET s == BuildOperation("send", id, config, R.operationCounter)
      r == IF s.threw THEN [operation |-> None, ids |-> <<>>, counter |-> s.counter, threw |-> TRUE]
           ELSE BuildOperation("receive", id, config, s.counter)
      entry == [config |-> config, handler |-> handler,
                operations |-> [send |-> s.operation, receive |-> r.operation]]
  IN  [registry |-> [channels |-> IF r.threw THEN R.channels ELSE MapSet(R.channels, id, entry),
                     operationCounter |-> r.counter],
       ids |-> s.ids \o r.ids,
       threw |-> r.threw]

getChannel(R, id) == MapGet(R.channels, id)

\* (variant: getAllChannels returns a copy, new Map(this.channels))
getAllChannelsCopy(r) == [kind |-> "frozen", reg |-> r, taken |-> reg[r].channels]

\* getAllChannels returns the Map itself, not a copy: the holder reads
\* whatever registry r holds at the time it iterates
getAllChannels(r) == [kind |-> "live", reg |-> r]

\* What iterating a held Map yields now (a Map that is a separate object
\* yields what was put into it)
ViewEntries(v) == IF v.kind = "live" THEN reg[v.reg].channels ELSE v.taken

\* `changed` notes that the registry behind a held Map was written to since
\* the Map was handed out
Touch(v, r, before, after) ==
  IF v # None /\ v[1].reg = r /\ before # after
  THEN Some([v[1] EXCEPT !.changed = TRUE])
  ELSE v

\* (variant: the counter survives the clear)
clearKeepCounter(R) == [R EXCEPT !.channels = <<>>]

clear(R) == [channels |-> <<>>, operationCounter |-> 0]

\* (variant: a key this registry already has is not overwritten)
RECURSIVE MergeLoopKeep(_, _, _, _)
MergeLoopKeep(mine, theirs, i, aliased) ==
  LET src == IF aliased THEN mine ELSE theirs IN
  IF i > Len(src) THEN mine
  ELSE MergeLoopKeep(IF MapHas(mine, src[i].id) THEN mine
                     ELSE MapSet(mine, src[i].id, src[i].entry), theirs, i + 1, aliased)

\* The loop of merge: other's Map is iterated live while this.channels is set;
\* when other is this registry, the Map iterated is the one being written.
RECURSIVE MergeLoop(_, _, _, _)
MergeLoop(mine, theirs, i, aliased) ==
  LET src == IF aliased THEN mine ELSE theirs IN
  IF i > Len(src) THEN mine
  ELSE MergeLoop(MapSet(mine, src[i].id, src[i].entry), theirs, i + 1, aliased)

\* (variant: the counter is raised to other's counter)
mergeReconcile(R, O, aliased) ==
  [channels |-> MergeLoop(R.channels, O.channels, 1, aliased),
   operationCounter |-> IF O.operationCounter > R.operationCounter
                        THEN O.operationCounter ELSE R.operationCounter]

merge(R, O, aliased) == [R EXCEPT !.channels = MergeLoop(R.channels, O.channels, 1, aliased)]

\* the operationIds carried by the entries of a Map
RECURSIVE EntryIds(_)
EntryIds(m) ==
  IF m = <<>> THEN {}
  ELSE LET ops == Head(m).entry.operations IN
       {o[1].operationId : o \in {ops.send, ops.receive} \ {None}} \cup EntryIds(Tail(m))

----------------------------------------------------------------------------
(* zodToAsyncAPISchema (src/src/zod-to-schema.ts) *)

\* A plain object with computed keys: slots [key, value] in insertion order
ObjHas(o, k) == \E i \in 1..Len(o) : o[i].key = k

ObjGet(o, k) == (CHOOSE s \in {o[i] : i \in 1..Len(o)} : s.key = k).value

ObjKeys(o) == {o[i].key : i \in 1..Len(o)}

\* o[k] = v
ObjSet(o, k, v) ==
  IF ObjHas(o, k)
  THEN [i \in 1..Len(o) |-> IF o[i].key = k THEN [key |-> k, value |-> v] ELSE o[i]]
  ELSE Append(o, [key |-> k, value |-> v])

EmptyObject == [k \in {} |-> None]

\* if (def.description) metadata.description = def.description
extractMetadata(def) ==
  IF Present(def.description) /\ def.description[1] # ""
  THEN [description |-> def.description[1]] ELSE EmptyObject

\* shape[key].isOptional(): whether the field schema accepts undefined
RECURSIVE isOptional(_)
isOptional(schema) ==
  CASE schema.typeName = "ZodOptional" -> TRUE
    [] schema.typeName = "ZodDefault" -> TRUE
    [] schema.typeName \in {"ZodAny", "ZodUndefined"} -> TRUE
    [] schema.typeName = "ZodNullable" -> isOptional(schema.innerType)
    [] OTHER -> FALSE

RECURSIVE generateSchemaFromZod(_)
generateSchemaFromZod(def) ==
  CASE def.typeName = "ZodString" -> extractMetadata(def) @@ [type |-> "string"]
    [] def.typeName = "ZodNumber" -> extractMetadata(def) @@ [type |-> "number"]
    [] def.typeName = "ZodBoolean" -> extractMetadata(def) @@ [type |-> "boolean"]
    [] def.typeName = "ZodArray" ->
         extractMetadata(def) @@ [type |-> "array", items |-> generateSchemaFromZod(def.type)]
    [] def.typeName = "ZodObject" ->
         LET shape == def.shape
             properties == [i \in 1..Len(shape) |->
                              [key |-> shape[i].key, value |-> generateSchemaFromZod(shape[i].schema)]]
             requiredSlots == SelectSeq(shape, LAMBDA f : ~isOptional(f.schema))
             required == [i \in 1..Len(requiredSlots) |-> requiredSlots[i].key]
         IN  extractMetadata(def)
             @@ (IF Len(required) > 0 THEN [required |-> required] ELSE EmptyObject)
             @@ [type |-> "object", properties |-> properties]
    [] def.typeName = "ZodEnum" -> extractMetadata(def) @@ [type |-> "string", enum |-> def.values]
    [] def.typeName = "ZodLiteral" ->
         extractMetadata(def) @@ [type |-> def.value.typeof, enum |-> <<def.value>>]
    [] def.typeName \in {"ZodUnion", "ZodDiscriminatedUnion"} ->
         extractMetadata(def)
         @@ [oneOf |-> [i \in 1..Len(def.options) |-> generateSchemaFromZod(def.options[i])]]
    [] def.typeName = "ZodOptional" -> generateSchemaFromZod(def.innerType)
    [] def.typeName = "ZodNullable" -> [nullable |-> TRUE] @@ generateSchemaFromZod(def.innerType)
    [] def.typeName = "ZodDefault" ->
         [default |-> def.defaultValue] @@ generateSchemaFromZod(def.innerType)
    [] def.typeName = "ZodRecord" ->
         extractMetadata(def)
         @@ [type |-> "object", additionalProperties |-> generateSchemaFromZod(def.valueType)]
    [] OTHER -> [type |-> "object"]

zodToAsyncAPISchema(schema) ==
  IF Present(schema.openapi) THEN schema.openapi[1] ELSE generateSchemaFromZod(schema)

----------------------------------------------------------------------------
(* Schema nodes offered to the translator *)

Descriptions == {None, Some("d")}

\* what schema.openapi({ example: ... }) leaves in _def.openapi
OpenApiMetadata == [metadata |-> [example |-> "e"]]

OpenApis == {None, Some(OpenApiMetadata)}

PrimitiveKinds == {"ZodString", "ZodNumber", "ZodBoolean"}

\* kinds the switch has no case for
UnsupportedKinds ==
  {"ZodTuple", "ZodMap", "ZodSet", "ZodNull", "ZodUndefined", "ZodAny",
   "ZodIntersection", "ZodLazy"}

WrapperKinds == {"ZodOptional", "ZodNullable", "ZodDefault"}

Node(typeName, description, openapi) ==
  [typeName |-> typeName, description |-> description, openapi |-> openapi]

\* z.optional / z.nullable / z.default around an inner schema
Wrapper(typeName, innerType, description, openapi) ==
  IF typeName = "ZodDefault"
  THEN [typeName |-> typeName, description |-> description, openapi |-> openapi,
        innerType |-> innerType, defaultValue |-> "default-value"]
  ELSE [typeName |-> typeName, description |-> description, openapi |-> openapi,
        innerType |-> innerType]

FieldKeys == <<"a", "b", "c", "d">>

\* z.object with the given field schemas under the first keys of FieldKeys
ZObject(fields, description, openapi) ==
  [typeName |-> "ZodObject", description |-> description, openapi |-> openapi,
   shape |-> [i \in 1..Len(fields) |-> [key |-> FieldKeys[i], schema |-> fields[i]]]]

ZStringDescribed == Node("ZodString", Some("inner"), None)

Atoms ==
  {Node(t, d, o) : t \in PrimitiveKinds \cup UnsupportedKinds, d \in Descriptions, o \in OpenApis}
  \cup {Node("ZodString", Some(""), None)}

\* the schemas of object fields
FieldSchemas ==
  {ZString, ZStringDescribed, Node("ZodAny", None, None),
   Wrapper("ZodOptional", ZString, None, None),
   Wrapper("ZodDefault", ZString, None, None),
   Wrapper("ZodNullable", ZString, None, None),
   Wrapper("ZodNullable", Wrapper("ZodOptional", ZString, None, None), None, None)}

RECURSIVE SeqsUpTo(_, _)
SeqsUpTo(S, n) ==
  IF n = 0 THEN {<<>>}
  ELSE SeqsUpTo(S, n - 1)
       \cup {Append(q, x) : q \in {p \in SeqsUpTo(S, n - 1) : Len(p) = n - 1}, x \in S}

Objects ==
  {ZObject(fields, d, o) : fields \in SeqsUpTo(FieldSchemas, MaxFields),
                           d \in Descriptions, o \in OpenApis}

\* the schemas inside wrappers, arrays and records
InnerSchemas ==
  {ZString, ZStringDescribed, Node("ZodString", None, Some(OpenApiMetadata)),
   Node("ZodTuple", None, None), ZMessageObject,
   Wrapper("ZodOptional", ZStringDescribed, None, None),
   Wrapper("ZodNullable", ZString, Some("d"), None)}

Wrappers ==
  {Wrapper(k, i, d, o) : k \in WrapperKinds, i \in InnerSchemas,
                         d \in Descriptions, o \in OpenApis}

Containers ==
  {[typeName |-> "ZodArray", description |-> d, openapi |-> o, type |-> i] :
     i \in InnerSchemas, d \in Descriptions, o \in OpenApis}
  \cup
  {[typeName |-> "ZodRecord", description |-> d, openapi |-> o, valueType |-> i] :
     i \in InnerSchemas, d \in Descriptions, o \in OpenApis}

Enumerations ==
  {[typeName |-> "ZodEnum", description |-> d, openapi |-> o,
    values |-> <<"red", "green", "blue">>] : d \in Descriptions, o \in OpenApis}
  \cup
  {[typeName |-> "ZodLiteral", description |-> d, openapi |-> o, value |-> v] :
     v \in {[typeof |-> "string", value |-> "test"], [typeof |-> "number", value |-> "1"]},
     d \in Descriptions, o \in OpenApis}

Unions ==
  {[typeName |-> k, description |-> d, openapi |-> o, options |-> <<i, j>>] :
     k \in {"ZodUnion", "ZodDiscriminatedUnion"},
     i \in {ZMessageObject}, j \in {ZStringDescribed, ZObject(<<ZString>>, None, None)},
     d \in Descriptions, o \in OpenApis}

Schemas == Atoms \cup Objects \cup Wrappers \cup Containers \cup Enumerations \cup Unions

----------------------------------------------------------------------------
(* generateAsyncAPIDocument (generator.ts) *)

SchemaKeyText == <<"s", "c", "h", "e", "m", "a", "_">>

\* (variant: headers stored under the payload's key text)
HeadersKeyTextAsSchema == <<"s", "c", "h", "e", "m", "a", "_">>

HeadersKeyText == <<"h", "e", "a", "d", "e", "r", "s", "_">>

SendMessageText == <<"_", "s", "e", "n", "d", "_", "m", "e", "s", "s", "a", "g", "e">>

ReceiveMessageText == <<"_", "r", "e", "c", "e", "i", "v", "e", "_", "m", "e", "s", "s", "a", "g", "e">>

SchemasRefText == <<"#", "/", "c", "o", "m", "p", "o", "n", "e", "n", "t", "s", "/", "s", "c", "h", "e", "m", "a", "s", "/">>

MessagesRefText == <<"#", "/", "c", "o", "m", "p", "o", "n", "e", "n", "t", "s", "/", "m", "e", "s", "s", "a", "g", "e", "s", "/">>

ChannelsRefText == <<"#", "/", "c", "h", "a", "n", "n", "e", "l", "s", "/">>

ServersRefText == <<"#", "/", "s", "e", "r", "v", "e", "r", "s", "/">>

Ref(text) == [ref |-> text]

\* tags.map(name => ({ name })), present only for a non-empty tags array
TagObjects(tags) ==
  IF Present(tags) /\ Len(tags[1]) > 0
  THEN Some([i \in 1..Len(tags[1]) |-> [name |-> tags[1][i]]])
  ELSE None

\* components.schemas![key] = zodToAsyncAPISchema(schema), for a payload or
\* headers schema that the message has
StoreSchema(schemas, key, schema) ==
  IF Present(schema) THEN ObjSet(schemas, key, zodToAsyncAPISchema(schema[1])) ELSE schemas

\* createMessageObject: the message, and components with the translated
\* payload and headers stored under keys made from the counter
createMessageObject(messageConfig, components, counter) ==
  LET schemaKey == SchemaKeyText \o ToDecimal(counter)
      headersKey == HeadersKeyText \o ToDecimal(counter)
      \* components.schemas![key] = ... on a schemas that is undefined
      threw == /\ "schemas" \in components.undefinedKeys
               /\ (Present(messageConfig.payload) \/ Present(messageConfig.headers))
      withPayload == StoreSchema(components.schemas, schemaKey, messageConfig.payload)
      withHeaders == StoreSchema(withPayload, headersKey, messageConfig.headers)
  IN  [message |->
         [contentType |-> IF Present(messageConfig.contentType)
                          THEN messageConfig.contentType[1] ELSE "application/json",
          name |-> messageConfig.name,
          summary |-> messageConfig.summary,
          description |-> messageConfig.description,
          payload |-> IF Present(messageConfig.payload)
                      THEN Some(Ref(SchemasRefText \o schemaKey)) ELSE None,
          headers |-> IF Present(messageConfig.headers)
                      THEN Some(Ref(SchemasRefText \o headersKey)) ELSE None],
       components |-> IF threw THEN components
                      ELSE [components EXCEPT !.schemas = withHeaders],
       threw |-> threw]

\* (variant: one message key per channel, whatever the direction)
MessageKeyPerChannel(channelId, dir) == channelId \o SendMessageText

\* `${channelId}_send_message` / `${channelId}_receive_message`
MessageKey(channelId, dir) ==
  channelId \o (IF dir = "send" THEN SendMessageText ELSE ReceiveMessageText)

\* The statements of a direction block after createMessageObject returned
\* made: the message goes into components.messages and channelMessages, the
\* operation into operations, and both counters advance
DirectionStore(g, made, channelId, messageKey, op, dir) ==
           IF made.threw THEN [g EXCEPT !.threw = TRUE]
           \* components.messages![messageKey] = message on a messages that is undefined
           ELSE IF "messages" \in g.components.undefinedKeys
           THEN [g EXCEPT !.components = made.components, !.threw = TRUE]
           ELSE
           [g EXCEPT
              !.components = [made.components EXCEPT
                                !.messages = ObjSet(@, messageKey, made.message)],
              !.channelMessages = ObjSet(@, messageKey, made.message),
              !.operations = ObjSet(@, op.operationId,
                               [action |-> dir,
                                channel |-> Ref(ChannelsRefText \o channelId),
                                summary |-> op.summary,
                                description |-> op.description,
                                messages |-> <<Ref(MessagesRefText \o messageKey)>>,
                                tags |-> TagObjects(op.tags)]),
              !.schemaCounter = @ + 1,
              !.messageCounter = @ + 1]

\* One of the two direction blocks of the loop body, on the accumulated state g
DirectionBlock(g, channelId, registered, dir) ==
  IF g.threw \/ ~(Present(registered.config[dir]) /\ Present(registered.operations[dir]))
  THEN g
  ELSE DirectionStore(g,
         createMessageObject(registered.config[dir][1], g.components, g.schemaCounter),
         channelId, MessageKey(channelId, dir), registered.operations[dir][1], dir)

\* (variant: path parameters rewritten to the '{name}' form)
ChannelAddressBraced(config) ==
  IF config.path = "/chat/:roomId" THEN "/chat/{roomId}" ELSE config.path

\* address: config.path
ChannelAddress(config) == config.path

\* channels[channelId] = { address, messages, ... }, on the state r that the
\* two direction blocks left
ChannelStore(r, channelId, config) ==
      IF r.threw THEN r ELSE
      [r EXCEPT
         !.channels = ObjSet(@, channelId,
           [address |-> ChannelAddress(config),
            description |-> config.description,
            messages |-> [i \in 1..Len(r.channelMessages) |->
                            [key |-> r.channelMessages[i].key,
                             value |-> Ref(MessagesRefText \o r.channelMessages[i].key)]],
            servers |-> IF Present(config.servers)
                        THEN Some([i \in 1..Len(config.servers[1]) |->
                                     Ref(ServersRefText \o config.servers[1][i])])
                        ELSE None,
            tags |-> TagObjects(config.tags)])]

\* The loop body for one registry entry
ChannelBlock(g, channelId, registered) ==
  ChannelStore(
    DirectionBlock(
      DirectionBlock([g EXCEPT !.channelMessages = <<>>], channelId, registered, "send"),
      channelId, registered, "receive"),
    channelId, registered.config)

RECURSIVE GenerateLoop(_, _, _)
GenerateLoop(g, entries, i) ==
  IF i > Len(entries) \/ g.threw THEN g
  ELSE GenerateLoop(ChannelBlock(g, entries[i].id, entries[i].entry), entries, i + 1)

\* { schemas: {}, messages: {}, ...(options.components || {}) }: a key that
\* options.components has replaces the default, also when its value is
\* undefined (undefinedKeys names the keys of components that hold undefined)
InitialComponents(options) ==
  [schemas |-> IF Present(options.components) /\ Present(options.components[1].schemas)
               THEN options.components[1].schemas[1] ELSE <<>>,
   messages |-> IF Present(options.components) /\ Present(options.components[1].messages)
                THEN options.components[1].messages[1] ELSE <<>>,
   undefinedKeys |-> IF Present(options.components)
                     THEN options.components[1].undefinedKeys ELSE {}]

\* (variant: numbering continues after the schemas already in components)
InitialSchemaCounterAfterSupplied(components) == Len(components.schemas)

\* let schemaCounter = 0
InitialSchemaCounter(components) == 0

\* The run of the loop over registry.getAllChannels(): the accumulated
\* channels, operations and components, and whether a statement threw
GeneratorRun(R, options) ==
  GenerateLoop([channels |-> <<>>, operations |-> <<>>,
                components |-> InitialComponents(options),
                channelMessages |-> <<>>,
                schemaCounter |-> InitialSchemaCounter(InitialComponents(options)),
                messageCounter |-> 0,
                threw |-> FALSE],
               R.channels, 1)

\* The caller's options object after the call: a schemas or messages object
\* it supplied is the one the generator wrote into
OptionsAfter(options, components) ==
  IF ~Present(options.components) THEN options
  ELSE [options EXCEPT !.components =
          Some([schemas |-> IF Present(@[1].schemas) THEN Some(components.schemas) ELSE None,
                messages |-> IF Present(@[1].messages) THEN Some(components.messages) ELSE None,
                undefinedKeys |-> @[1].undefinedKeys])]

\* How the call ends on the loop state g: with the TypeError of the statement
\* that threw, or with the document returned; and the options object it leaves
GeneratorOutcome(g, options) ==
  IF g.threw
  THEN [kind |-> "TypeError", options |-> OptionsAfter(options, g.components)]
  ELSE [kind |-> "document",
        doc |-> [asyncapi |-> "3.0.0",
                 info |-> options.info,
                 servers |-> options.servers,
                 channels |-> g.channels,
                 operations |-> g.operations,
                 components |-> g.components],
        options |-> OptionsAfter(options, g.components)]

generateAsyncAPIDocument(R, options) == GeneratorOutcome(GeneratorRun(R, options), options)

----------------------------------------------------------------------------
(* AsyncAPIHono (asyncapi-hono.ts) and mergeAPIDocs (unified.ts) *)

\* Two apps: "ws" is an AsyncAPIHono built without options, whose Registry
\* is "a"; "rest" is an OpenAPIHono, which has no AsyncAPI members of its
\* own.  A method member names the app it runs against.
AppNames == {"ws", "rest"}

InitialApps ==
  [ws |-> [asyncAPIRegistry |-> Some("a"), info |-> None, servers |-> None, routes |-> <<>>,
           channel |-> Some("ws"), getAsyncAPIDocument |-> Some("ws")],
   rest |-> [asyncAPIRegistry |-> None, info |-> None, servers |-> None, routes |-> <<>>,
             channel |-> None, getAsyncAPIDocument |-> None]]

DefaultInfo == [title |-> "API Documentation", version |-> "1.0.0"]

\* (variant: the route is bound whether or not a handler was given)
ChannelRouteAlways(routes, config, handler, in) ==
  Append(routes, [method |-> "GET", path |-> config.path, handler |-> in])

\* this.get(config.path, ...) when a handler was given; the route handler is
\* the function written in the method named by `in`
ChannelRoute(routes, config, handler, in) ==
  IF Present(handler)
  THEN Append(routes, [method |-> "GET", path |-> config.path, handler |-> in])
  ELSE routes

\* AsyncAPIHono.channel on app: the routes of the apps afterwards
channel(A, app, config, handler) ==
  [A EXCEPT ![app].routes = ChannelRoute(@, config, handler, "AsyncAPIHono.channel")]

\* the channel member mergeAPIDocs gives the merged app: asyncAPIApp.channel,
\* then the same route on the merged app
mergedChannel(A, app, config, handler) ==
  [channel(A, A[app].channel[1], config, handler) EXCEPT
     ![app].routes = ChannelRoute(@, config, handler, "mergeAPIDocs.channel")]

\* the generator options AsyncAPIHono.getAsyncAPIDocument(options?) builds
GeneratorOptionsOf(app, options) ==
  [info |-> IF Present(options) /\ Present(options[1].info) THEN options[1].info[1]
            ELSE IF Present(app.info) THEN app.info[1]
            ELSE DefaultInfo,
   servers |-> IF Present(options) /\ Present(options[1].servers) THEN options[1].servers
               ELSE app.servers,
   components |-> IF Present(options) THEN options[1].components ELSE None]

\* (variant: the merged app gets a Registry of its own, filled by merge)
mergeAPIDocsCopy(A, R, openAPIApp, asyncAPIApp) ==
  [apps |-> [A EXCEPT ![openAPIApp].routes = @ \o A[asyncAPIApp].routes,
                      ![openAPIApp].asyncAPIRegistry = Some("b"),
                      ![openAPIApp].getAsyncAPIDocument = Some(openAPIApp),
                      ![openAPIApp].channel = Some(openAPIApp)],
   reg |-> [R EXCEPT !["b"] = merge(NewRegistry, R[A[asyncAPIApp].asyncAPIRegistry[1]], FALSE)]]

\* mergeAPIDocs(openAPIApp, asyncAPIApp): the apps and the registries afterwards
mergeAPIDocs(A, R, openAPIApp, asyncAPIApp) ==
  [apps |-> [A EXCEPT ![openAPIApp].routes = @ \o A[asyncAPIApp].routes,
                      ![openAPIApp].asyncAPIRegistry = A[asyncAPIApp].asyncAPIRegistry,
                      ![openAPIApp].getAsyncAPIDocument = Some(asyncAPIApp),
                      ![openAPIApp].channel = Some(asyncAPIApp)],
   reg |-> R]

\* The apps of a modular set-up: "parent" is an AsyncAPIHono built with an
\* info, "sub" one built without options, and "based" the app that
\* parent.basePath() returns, which does not exist before that call.
\* `mounted` notes the apps that were passed to route() of the app so far.
RouteAppNames == {"parent", "sub", "based"}

RouteApps ==
  [parent |-> [asyncAPIRegistry |-> Some("a"), info |-> Some(Info), servers |-> None,
               routes |-> <<>>, channel |-> Some("parent"),
               getAsyncAPIDocument |-> Some("parent"), mounted |-> {}],
   sub |-> [asyncAPIRegistry |-> Some("b"), info |-> None, servers |-> None,
            routes |-> <<>>, channel |-> Some("sub"),
            getAsyncAPIDocument |-> Some("sub"), mounted |-> {}],
   based |-> [asyncAPIRegistry |-> None, info |-> None, servers |-> None,
              routes |-> <<>>, channel |-> None,
              getAsyncAPIDocument |-> None, mounted |-> {}]]

\* (variant: the app takes over the Registry of the app routed in)
routeShare(A, R, parent, app) ==
  [apps |-> [A EXCEPT ![parent].asyncAPIRegistry = A[app].asyncAPIRegistry,
                      ![parent].mounted = @ \cup {app}],
   reg |-> R]

\* parent.route(path, app): this.asyncAPIRegistry.merge(app.asyncAPIRegistry),
\* then Hono's route, which adds app's routes to the app that
\* this.basePath(path) returns; with basePath overridden that is a new app,
\* so the routes of parent stay as they are
route(A, R, parent, app) ==
  [apps |-> [A EXCEPT ![parent].mounted = @ \cup {app}],
   reg |-> [R EXCEPT ![A[parent].asyncAPIRegistry[1]] =
              merge(@, R[A[app].asyncAPIRegistry[1]],
                    A[parent].asyncAPIRegistry = A[app].asyncAPIRegistry)]]

\* (variant: the new app keeps the Registry its constructor created)
basePathOwnRegistry(A, app, new) ==
  [A EXCEPT ![new] = [asyncAPIRegistry |-> Some("c"), info |-> A[app].info,
                      servers |-> A[app].servers, routes |-> <<>>,
                      channel |-> Some(new), getAsyncAPIDocument |-> Some(new),
                      mounted |-> {}]]

\* app.basePath(path): a new AsyncAPIHono with the info and servers of app,
\* whose asyncAPIRegistry is then set to the Registry of app; the path is not
\* used
basePath(A, app, new) ==
  [A EXCEPT ![new] = [asyncAPIRegistry |-> A[app].asyncAPIRegistry, info |-> A[app].info,
                      servers |-> A[app].servers, routes |-> <<>>,
                      channel |-> Some(new), getAsyncAPIDocument |-> Some(new),
                      mounted |-> {}]]

\* the channel calls made on the apps of the modular set-up: <<app, id, call>>
RouteRegistrations ==
  ({"parent", "based"} \X ChannelIds \X {<<CfgSend, Handler>>})
  \cup {<<"sub", <<"x">>, <<CfgSend, None>>>>, <<"sub", <<"x", "_", "0">>, <<CfgNeither, None>>>>}

\* The apps that are sent requests: "ws" is an AsyncAPIHono on Registry "a",
\* "rest" an OpenAPIHono (it has a getOpenAPIDocument of its own and gets its
\* AsyncAPI members from mergeAPIDocs), "unified" a UnifiedAPIHono built with
\* an asyncapi info, on Registry "b"; the classes UnifiedAPIHono,
\* AsyncAPIHono and Hono define no getOpenAPIDocument
ServeAppNames == {"ws", "rest", "unified"}

ServeApps ==
  [ws |-> [asyncAPIRegistry |-> Some("a"), info |-> None, servers |-> None, routes |-> <<>>,
           channel |-> Some("ws"), getAsyncAPIDocument |-> Some("ws"),
           getOpenAPIDocument |-> None],
   rest |-> [asyncAPIRegistry |-> None, info |-> None, servers |-> None, routes |-> <<>>,
             channel |-> None, getAsyncAPIDocument |-> None,
             getOpenAPIDocument |-> Some("rest")],
   unified |-> [asyncAPIRegistry |-> Some("b"), info |-> Some(Info), servers |-> None,
                routes |-> <<>>, channel |-> Some("unified"),
                getAsyncAPIDocument |-> Some("unified"),
                getOpenAPIDocument |-> None]]

\* the method doc of AsyncAPIHono, doc(path, options): this.get(path, c => c.json(this.getAsyncAPIDocument(options)))
docMethod(A, app, path, options) ==
  [A EXCEPT ![app].routes =
     Append(@, [method |-> "GET", path |-> path, handler |-> "AsyncAPIHono.doc",
                options |-> options])]

\* this.doc(asyncapiPath) and this.get(openapiPath, c => c.json(this.getOpenAPIDocument()))
docsBoth(A, app, openapiPath, asyncapiPath) ==
  [docMethod(A, app, asyncapiPath, None) EXCEPT ![app].routes =
     Append(@, [method |-> "GET", path |-> openapiPath, handler |-> "UnifiedAPIHono.docs"])]

\* UnifiedAPIHono.docs(openapiPath, asyncapiPath): this.doc(asyncapiPath), and
\* a route at openapiPath if this app has a getOpenAPIDocument function
docs(A, app, openapiPath, asyncapiPath) ==
  IF Present(A[app].getOpenAPIDocument)
  THEN docsBoth(A, app, openapiPath, asyncapiPath)
  ELSE docMethod(A, app, asyncapiPath, None)

\* what a getOpenAPIDocument function returns
OpenAPIDocument == [openapi |-> "3.0.0"]

\* the request paths that a route path with a parameter matches, besides itself
ParamMatches == {<<"/chat/:roomId", "/chat/1">>}

\* the router's match of a route to a request
RouteMatches(rt, method, path) ==
  /\ rt.method = method
  /\ (rt.path = path \/ <<rt.path, path>> \in ParamMatches)

\* c.json(doc) for the document getAsyncAPIDocument returned; an error thrown
\* in a handler is answered by the router's error handler
DocResponse(outcome) ==
  IF outcome.kind = "document" THEN [status |-> 200, json |-> outcome.doc]
  ELSE [status |-> 500, text |-> "Internal Server Error"]

\* the response of the handler of route rt of app to a request with the
\* given upgrade header
HandlerResponse(A, R, app, rt, upgrade) ==
  CASE rt.handler \in {"AsyncAPIHono.channel", "mergeAPIDocs.channel"} ->
         IF upgrade # Some("websocket")
         THEN [status |-> 400, text |-> "Expected WebSocket connection"]
         ELSE [status |-> 426, text |-> "WebSocket endpoint - upgrade required"]
    [] rt.handler = "AsyncAPIHono.doc" ->
         DocResponse(generateAsyncAPIDocument(R[A[app].asyncAPIRegistry[1]],
                                              GeneratorOptionsOf(A[app], rt.options)))
    [] rt.handler = "UnifiedAPIHono.docs" -> [status |-> 200, json |-> OpenAPIDocument]

\* the dispatch of a request: the handler of the first route that matches
\* answers, and a request that no route matches is answered with 404
Dispatch(A, R, app, matching, upgrade) ==
  IF matching = <<>> THEN [status |-> 404, text |-> "404 Not Found"]
  ELSE HandlerResponse(A, R, app, Head(matching), upgrade)

fetch(A, R, app, method, path, upgrade) ==
  Dispatch(A, R, app, SelectSeq(A[app].routes, LAMBDA rt : RouteMatches(rt, method, path)),
           upgrade)

\* the channel calls made on the apps that are sent requests
ServeRegistrations ==
  ({"ws"} \X ChannelIds \X {<<CfgSend, Handler>>, <<CfgBoth, None>>})
  \cup {<<"rest", <<"x">>, <<CfgSend, Handler>>>>, <<"unified", <<"x">>, <<CfgSend, Handler>>>>}

\* the upgrade headers of the requests: none, the expected one, and one in
\* another spelling
UpgradeHeaders == {None, Some("websocket"), Some("WebSocket")}

\* the requests sent: <<app, method, path, upgrade header>>
Requests ==
  ({"ws"} \X {"GET"} \X {"/chat/1"} \X UpgradeHeaders)
  \cup ({"rest"} \X {"GET"} \X {"/chat/1"} \X {None, Some("websocket")})
  \cup ({"unified"} \X {"GET"} \X {"/chat/1", "/asyncapi.json", "/openapi.json"} \X {None})
  \cup {<<"ws", "GET", "/test", Some("websocket")>>,
         <<"ws", "POST", "/chat/1", Some("websocket")>>}

\* the channel calls made on the apps
AppRegistrations == ChannelIds \X {<<CfgSend, Handler>>, <<CfgBoth, None>>}

\* the options passed to getAsyncAPIDocument: none, or an info of the caller's
DocumentOptions ==
  {None, Some([info |-> Some(Info), servers |-> None, components |-> None])}

----------------------------------------------------------------------------
(* Calls *)

\* A caller that holds a Map from getAllChannels only writes to the registries
\* or iterates the Map before it makes another read call.

Void == [kind |-> "void"]

Init ==
  /\ reg = [r \in RegNames |-> NewRegistry]
  /\ allocated = [r \in RegNames |-> <<>>]
  /\ cleared = [r \in RegNames |-> FALSE]
  /\ view = None
  /\ last = [op |-> "new"]
  /\ ret = Void
  /\ raised = FALSE
  /\ kept = None
  /\ apps = InitialApps

\* registry r's registerChannel, called directly or through the channel
\* method of an app (via)
RegisterCall(r, id, config, handler, via) ==
  LET res == registerChannel(reg[r], id, config, handler) IN
  /\ res.registry.operationCounter <= CounterBound(r)
  /\ Len(allocated[r]) + Len(res.ids) <= CounterBound(r)
  /\ reg' = [reg EXCEPT ![r] = res.registry]
  /\ allocated' = [allocated EXCEPT ![r] = @ \o res.ids]
  /\ cleared' = [cleared EXCEPT ![r] = @ /\ res.ids = <<>>]
  /\ raised' = (raised \/ res.threw)
  /\ last' = [op |-> "registerChannel", reg |-> r, id |-> id, config |-> config,
              handler |-> handler, replaced |-> getChannel(reg[r], id), via |-> via]
  /\ ret' = Void
  /\ view' = Touch(view, r, reg[r].channels, res.registry.channels)
  /\ UNCHANGED kept

RegisterChannel(r, id, config, handler) ==
  /\ RegisterCall(r, id, config, handler, "registry")
  /\ UNCHANGED apps

GetChannel(r, id) ==
  /\ view = None
  /\ last' = [op |-> "getChannel", reg |-> r, id |-> id]
  /\ ret' = [kind |-> "channel", value |-> getChannel(reg[r], id)]
  /\ UNCHANGED <<reg, allocated, cleared, view, raised, kept, apps>>

GetAllChannels(r) ==
  /\ view = None
  /\ view' = Some(getAllChannels(r) @@ [changed |-> FALSE])
  /\ last' = [op |-> "getAllChannels", reg |-> r]
  /\ ret' = [kind |-> "map"]
  /\ UNCHANGED <<reg, allocated, cleared, raised, kept, apps>>

\* the holder of the Map iterates it and lets go of it
IterateView ==
  /\ view # None
  /\ last' = [op |-> "iterate", reg |-> view[1].reg, changed |-> view[1].changed]
  /\ ret' = [kind |-> "entries", items |-> ViewEntries(view[1])]
  /\ view' = None
  /\ UNCHANGED <<reg, allocated, cleared, raised, kept, apps>>

Clear(r) ==
  /\ reg' = [reg EXCEPT ![r] = clear(@)]
  /\ allocated' = [allocated EXCEPT ![r] = <<>>]
  /\ cleared' = [cleared EXCEPT ![r] = TRUE]
  /\ last' = [op |-> "clear", reg |-> r]
  /\ ret' = Void
  /\ view' = Touch(view, r, reg[r].channels, <<>>)
  /\ UNCHANGED <<raised, kept, apps>>

Merge(r, o) ==
  /\ reg' = [reg EXCEPT ![r] = merge(reg[r], reg[o], o = r)]
  /\ last' = [op |-> "merge", reg |-> r, other |-> o]
  /\ ret' = Void
  /\ view' = Touch(view, r, reg[r].channels, merge(reg[r], reg[o], o = r).channels)
  /\ UNCHANGED <<allocated, cleared, raised, kept, apps>>

\* (variant: the generator consumes the registry, it clears it once the
\* document is built)
GenerateCallConsuming(r, options) ==
  /\ view = None
  /\ last' = [op |-> "generate", reg |-> r, options |-> options]
  /\ ret' = generateAsyncAPIDocument(reg[r], options)
  /\ raised' = (raised \/ ret'.kind = "TypeError")
  /\ reg' = [reg EXCEPT ![r] = clear(@)]
  /\ UNCHANGED <<allocated, cleared, view, apps>>

\* generateAsyncAPIDocument(registry r, options) and what it leaves behind
GenerateCall(r, options) ==
  /\ view = None
  /\ last' = [op |-> "generate", reg |-> r, options |-> options]
  /\ ret' = generateAsyncAPIDocument(reg[r], options)
  /\ raised' = (raised \/ ret'.kind = "TypeError")
  /\ UNCHANGED <<reg, allocated, cleared, view, apps>>

\* a call with an options object made for this call
Generate(r, options) ==
  /\ GenerateCall(r, options)
  /\ UNCHANGED kept

\* a call with an options object that the caller keeps afterwards
GenerateAndKeep(r, options) ==
  /\ ~Present(kept)
  /\ GenerateCall(r, options)
  /\ kept' = Some(ret'.options)

\* a call with the options object the caller kept
Regenerate(r) ==
  /\ Present(kept)
  /\ GenerateCall(r, kept[1])
  /\ kept' = Some(ret'.options)

Next ==
  \/ \E c \in Registrations : RegisterChannel(c[1], c[2], c[3][1], c[3][2])
  \/ \E id \in ChannelIds : GetChannel("a", id)
  \/ GetAllChannels("a")
  \/ IterateView
  \/ \E r \in Clears : Clear(r)
  \/ \E m \in Merges : Merge(m[1], m[2])
  \/ \E options \in GeneratorOptions : Generate("a", options)

Spec == Init /\ [][Next]_vars

\* One registry, read by the generator with every kind of options
NextGenerator ==
  \/ \E c \in GeneratorRegistrations : RegisterChannel(c[1], c[2], c[3][1], c[3][2])
  \/ \E options \in AllGeneratorOptions : GenerateAndKeep("a", options)
  \/ Regenerate("a")
  \/ Clear("a")

SpecGenerator == Init /\ [][NextGenerator]_vars

\* app.channel(id, config, handler) on an AsyncAPIHono, or on the app that
\* mergeAPIDocs returned
Channel(app, id, config, handler) ==
  /\ Present(apps[app].channel)
  /\ RegisterCall(apps[apps[app].channel[1]].asyncAPIRegistry[1], id, config, handler, app)
  /\ apps' = IF apps[app].channel[1] = app
             THEN channel(apps, app, config, handler)
             ELSE mergedChannel(apps, app, config, handler)

MergeAPIDocs(openAPIApp, asyncAPIApp) ==
  LET res == mergeAPIDocs(apps, reg, openAPIApp, asyncAPIApp) IN
  /\ ~Present(apps[openAPIApp].asyncAPIRegistry)
  /\ apps' = res.apps
  /\ reg' = res.reg
  /\ last' = [op |-> "mergeAPIDocs", openAPIApp |-> openAPIApp, asyncAPIApp |-> asyncAPIApp]
  /\ ret' = [kind |-> "app", app |-> openAPIApp]
  /\ UNCHANGED <<allocated, cleared, view, raised, kept>>

\* app.getAsyncAPIDocument(options?)
GetAsyncAPIDocument(app, options) ==
  LET target == apps[apps[app].getAsyncAPIDocument[1]]
      r == target.asyncAPIRegistry[1]
      generatorOptions == GeneratorOptionsOf(target, options)
  IN
  /\ Present(apps[app].getAsyncAPIDocument)
  /\ view = None
  /\ last' = [op |-> "getAsyncAPIDocument", app |-> app, reg |-> r, options |-> generatorOptions]
  /\ ret' = generateAsyncAPIDocument(reg[r], generatorOptions)
  /\ raised' = (raised \/ ret'.kind = "TypeError")
  /\ UNCHANGED <<reg, allocated, cleared, view, kept, apps>>

\* An AsyncAPIHono, and an OpenAPIHono that mergeAPIDocs joins with it
NextApps ==
  \/ \E app \in AppNames, c \in AppRegistrations : Channel(app, c[1], c[2][1], c[2][2])
  \/ MergeAPIDocs("rest", "ws")
  \/ \E app \in AppNames, options \in DocumentOptions : GetAsyncAPIDocument(app, options)

SpecApps == Init /\ [][NextApps]_vars

\* parent.route(path, app)
Route(parent, app) ==
  LET res == route(apps, reg, parent, app)
      r == apps[parent].asyncAPIRegistry[1]
  IN
  /\ Present(apps[app].asyncAPIRegistry)
  /\ apps' = res.apps
  /\ reg' = res.reg
  /\ last' = [op |-> "route", parent |-> parent, app |-> app]
  /\ ret' = [kind |-> "app", app |-> parent]
  /\ view' = Touch(view, r, reg[r].channels, res.reg[r].channels)
  /\ UNCHANGED <<allocated, cleared, raised, kept>>

\* app.basePath(path), once; the result is the app "based"
BasePath(app) ==
  /\ ~Present(apps["based"].asyncAPIRegistry)
  /\ apps' = basePath(apps, app, "based")
  /\ last' = [op |-> "basePath", app |-> app]
  /\ ret' = [kind |-> "app", app |-> "based"]
  /\ UNCHANGED <<reg, allocated, cleared, view, raised, kept>>

InitRoute ==
  /\ reg = [r \in RegNames |-> NewRegistry]
  /\ allocated = [r \in RegNames |-> <<>>]
  /\ cleared = [r \in RegNames |-> FALSE]
  /\ view = None
  /\ last = [op |-> "new"]
  /\ ret = Void
  /\ raised = FALSE
  /\ kept = None
  /\ apps = RouteApps

\* Apps that are routed into one another and an app made by basePath
NextRoute ==
  \/ \E c \in RouteRegistrations : Channel(c[1], c[2], c[3][1], c[3][2])
  \/ \E app \in {"sub", "based"} : Route("parent", app)
  \/ BasePath("parent")
  \/ \E app \in {"parent", "based"} : GetAsyncAPIDocument(app, None)

SpecRoute == InitRoute /\ [][NextRoute]_vars

\* app.docs(openapiPath, asyncapiPath), once per app
Docs(app, openapiPath, asyncapiPath) ==
  /\ \A i \in 1..Len(apps[app].routes) : apps[app].routes[i].path # asyncapiPath
  /\ apps' = docs(apps, app, openapiPath, asyncapiPath)
  /\ last' = [op |-> "docs", app |-> app, openapiPath |-> openapiPath,
              asyncapiPath |-> asyncapiPath]
  /\ ret' = [kind |-> "app", app |-> app]
  /\ UNCHANGED <<reg, allocated, cleared, view, raised, kept>>

\* the caller gives the app a getOpenAPIDocument function of their own
DefineGetOpenAPIDocument(app) ==
  /\ ~Present(apps[app].getOpenAPIDocument)
  /\ apps' = [apps EXCEPT ![app].getOpenAPIDocument = Some(app)]
  /\ last' = [op |-> "defineGetOpenAPIDocument", app |-> app]
  /\ ret' = Void
  /\ UNCHANGED <<reg, allocated, cleared, view, raised, kept>>

\* a request to the app; `afterRejection` notes that the call before was a
\* request that was answered with the 400 rejection
Request(app, method, path, upgrade) ==
  /\ view = None
  /\ last' = [op |-> "request", app |-> app, method |-> method, path |-> path,
              upgrade |-> upgrade,
              afterRejection |-> (last.op = "request" /\ ret.status = 400)]
  /\ ret' = fetch(apps, reg, app, method, path, upgrade) @@ [kind |-> "response"]
  /\ UNCHANGED <<reg, allocated, cleared, view, raised, kept, apps>>

InitServe ==
  /\ reg = [r \in RegNames |-> NewRegistry]
  /\ allocated = [r \in RegNames |-> <<>>]
  /\ cleared = [r \in RegNames |-> FALSE]
  /\ view = None
  /\ last = [op |-> "new"]
  /\ ret = Void
  /\ raised = FALSE
  /\ kept = None
  /\ apps = ServeApps

\* Apps with channel routes and document routes, and the requests to them
NextServe ==
  \/ \E c \in ServeRegistrations : Channel(c[1], c[2], c[3][1], c[3][2])
  \/ MergeAPIDocs("rest", "ws")
  \/ Docs("unified", "/openapi.json", "/asyncapi.json")
  \/ DefineGetOpenAPIDocument("unified")
  \/ \E q \in Requests : Request(q[1], q[2], q[3], q[4])

SpecServe == InitServe /\ [][NextServe]_vars

\* The translator alone: a schema node is chosen and zodToAsyncAPISchema is
\* called on it
InitTranslator ==
  /\ reg = [r \in RegNames |-> NewRegistry]
  /\ allocated = [r \in RegNames |-> <<>>]
  /\ cleared = [r \in RegNames |-> FALSE]
  /\ view = None
  /\ \E schema \in Schemas : last = [op |-> "schema", schema |-> schema]
  /\ ret = Void
  /\ raised = FALSE
  /\ kept = None
  /\ apps = InitialApps

Translate ==
  /\ last.op = "schema"
  /\ last' = [op |-> "zodToAsyncAPISchema", schema |-> last.schema]
  /\ ret' = [kind |-> "schema", value |-> zodToAsyncAPISchema(last.schema)]
  /\ UNCHANGED <<reg, allocated, cleared, view, raised, kept, apps>>

NextTranslator == Translate

SpecTranslator == InitTranslator /\ [][NextTranslator]_vars

----------------------------------------------------------------------------
(* Properties of the Registry *)

NoDuplicates(s) == \A i, j \in 1..Len(s) : i # j => s[i] # s[j]

\* the text '<direction>_<channelId>_<sequence>'
IdText(dir, id, n) == DirText(dir) \o <<"_">> \o id \o <<"_">> \o ToDecimal(n)

\* the directions a config has, send first
DirsOf(config) == SelectSeq(Directions, LAMBDA d : Present(config[d]))

IsRegister(l) == l.op = "registerChannel"

Last(s) == s[Len(s)]

\* C1: between two clear() calls, all operationIds a registry allocates are
\* pairwise distinct, those of overwritten entries included.
C1_UniqueOperationIds == \A r \in RegNames : NoDuplicates(allocated[r])

\* a registry that allocated twice and no longer holds the first id
C1_Witness ==
  /\ Len(allocated["a"]) = 2
  /\ Len(reg["a"].channels) = 1
  /\ allocated["a"][1] \notin EntryIds(reg["a"].channels)
  /\ allocated["a"][2] \in EntryIds(reg["a"].channels)

\* C2: a registerChannel call allocates, for each direction of the config
\* (send before receive), the id '<direction>_<channelId>_<n>' where n is the
\* number of ids the registry allocated before it; nothing for a config with
\* neither direction; and the stored operations carry exactly these ids.
C2_SequenceNumbers ==
  [][IsRegister(last') =>
       LET r == last'.reg
           dirs == DirsOf(last'.config)
           n == Len(allocated[r])
           ids == [i \in 1..Len(dirs) |-> IdText(dirs[i], last'.id, n + i - 1)]
           ops == getChannel(reg'[r], last'.id)[1].operations
       IN  /\ allocated'[r] = allocated[r] \o ids
           /\ reg'[r].operationCounter = reg[r].operationCounter + Len(dirs)
           /\ \A i \in 1..Len(dirs) : ops[dirs[i]][1].operationId = ids[i]
    ]_vars

\* two send-only channels registered in sequence hold sequences 0 and 1
C2_Witness ==
  /\ IsRegister(last) /\ last.reg = "a" /\ last.config = CfgSend
  /\ Len(reg["a"].channels) = 2
  /\ reg["a"].channels[1].entry.operations.send =
       Some(OperationMetadata("send", reg["a"].channels[1].id, MsgPayload, CfgSend.tags, 0))
  /\ Last(reg["a"].channels[2].entry.operations.send[1].operationId) = "1"
  /\ allocated["a"] = <<reg["a"].channels[1].entry.operations.send[1].operationId,
                        reg["a"].channels[2].entry.operations.send[1].operationId>>

\* C3: clear() leaves the registry without entries (getChannel finds nothing
\* for any id) and with counter 0, and the first id allocated after a clear
\* has sequence 0, whatever happened before the clear or between the two.
C3_ClearResets ==
  [][/\ last'.op = "clear" =>
          /\ reg'[last'.reg].channels = <<>>
          /\ reg'[last'.reg].operationCounter = 0
          /\ \A id \in ChannelIds : getChannel(reg'[last'.reg], id) = None
     /\ (IsRegister(last') /\ cleared[last'.reg] /\ DirsOf(last'.config) # <<>>) =>
          allocated'[last'.reg][1] = IdText(DirsOf(last'.config)[1], last'.id, 0)
    ]_vars

\* a clear that emptied a registry which had entries, seen through a held Map
C3_Witness ==
  /\ last.op = "clear" /\ last.reg = "a"
  /\ view # None /\ view[1].changed
  /\ reg["a"].channels = <<>>
  /\ reg["b"].channels # <<>>

\* C4: registerChannel on an id the registry already has replaces the entry:
\* afterwards the entry holds the new config, the new handler and, for exactly
\* the directions of the new config, the operation metadata built in this call
\* from the new config (its ids are the ones this call allocated), so nothing
\* of the previous entry is kept; the keys and their order are unchanged.
C4_OverwriteReplaces ==
  [][(IsRegister(last') /\ MapHas(reg[last'.reg].channels, last'.id)) =>
       LET r == last'.reg
           cfg == last'.config
           new == getChannel(reg'[r], last'.id)[1]
           fresh == SubSeq(allocated'[r], Len(allocated[r]) + 1, Len(allocated'[r]))
       IN  /\ new.config = cfg
           /\ new.handler = last'.handler
           /\ \A d \in {"send", "receive"} :
                 /\ Present(new.operations[d]) <=> Present(cfg[d])
                 /\ Present(new.operations[d]) =>
                      /\ new.operations[d][1].summary = cfg[d][1].summary
                      /\ new.operations[d][1].description = cfg[d][1].description
                      /\ new.operations[d][1].tags = cfg.tags
                      /\ \E i \in 1..Len(fresh) : fresh[i] = new.operations[d][1].operationId
           /\ Len(fresh) = Len(DirsOf(cfg))
           /\ MapKeys(reg'[r].channels) = MapKeys(reg[r].channels)
    ]_vars

\* an entry with two operations was replaced by one with none
C4_Witness ==
  /\ IsRegister(last) /\ last.reg = "a" /\ last.config = CfgNeither
  /\ allocated["a"] = <<IdText("send", last.id, 0), IdText("receive", last.id, 1)>>
  /\ Len(reg["a"].channels) = 1
  /\ getChannel(reg["a"], last.id) =
       Some([config |-> CfgNeither, handler |-> None,
             operations |-> [send |-> None, receive |-> None]])

KeySet(m) == {m[i].id : i \in 1..Len(m)}

IsMerge(l) == l.op = "merge"

\* C5: after a.merge(b) the keys of a are those of a and of b; a key of b
\* maps to b's entry, a key of a alone to the entry a had.
C5_MergeUnion ==
  [][IsMerge(last') =>
       LET mine == reg[last'.reg].channels
           theirs == reg[last'.other].channels
           after == reg'[last'.reg].channels
       IN  /\ KeySet(after) = KeySet(mine) \cup KeySet(theirs)
           /\ \A id \in KeySet(theirs) : MapGet(after, id) = MapGet(theirs, id)
           /\ \A id \in KeySet(mine) \ KeySet(theirs) : MapGet(after, id) = MapGet(mine, id)
    ]_vars

\* a merge that replaced an entry a had registered itself and kept another
C5_Witness ==
  /\ IsMerge(last) /\ last.reg = "a" /\ last.other = "b"
  /\ Len(reg["a"].channels) = 2 /\ Len(reg["b"].channels) = 1
  /\ LET id == reg["b"].channels[1].id IN
       /\ reg["a"].channels[1].id = id
       /\ reg["a"].channels[1].entry = reg["b"].channels[1].entry
       /\ allocated["a"] = <<IdText("send", id, 0), IdText("receive", id, 1)>>
  /\ reg["a"].channels[2].entry.config = CfgNeither

\* C6: a.merge(b) changes neither b nor a's counter nor what either one has
\* allocated, and the entries copied into a carry the operations, ids
\* included, that they have in b.
C6_MergeFrame ==
  [][IsMerge(last') =>
       LET r == last'.reg
           o == last'.other
       IN  /\ reg'[o].operationCounter = reg[o].operationCounter
           /\ o # r => reg'[o] = reg[o]
           /\ reg'[r].operationCounter = reg[r].operationCounter
           /\ allocated' = allocated
           /\ \A id \in KeySet(reg[o].channels) :
                 MapGet(reg'[r].channels, id)[1].operations = MapGet(reg[o].channels, id)[1].operations
           /\ EntryIds(reg[o].channels) \subseteq EntryIds(reg'[r].channels)
    ]_vars

\* a merge from a registry whose counter is ahead of the receiving one
C6_Witness ==
  /\ IsMerge(last) /\ last.reg = "a" /\ last.other = "b"
  /\ reg["b"].operationCounter = 1 /\ reg["a"].operationCounter = 0
  /\ EntryIds(reg["b"].channels) # {}
  /\ EntryIds(reg["a"].channels) = EntryIds(reg["b"].channels)

\* the operationIds a registry holds in its entries without having allocated
\* them: they came in by merge
CopiedIn(r) == EntryIds(reg[r].channels) \ {allocated[r][i] : i \in 1..Len(allocated[r])}

\* C7: a registry's counter counts its own allocations only, also when it
\* holds entries merged in from another registry; so a registration made
\* after a merge can be given an id that a copied-in entry carries.
C7_CounterIndependent ==
  \A r \in RegNames :
    CopiedIn(r) # {} => reg[r].operationCounter = Len(allocated[r])

\* after a.merge(b), a registration on a was given an id that the merge copied in
C7_Witness ==
  /\ IsRegister(last) /\ last.reg = "a" /\ DirsOf(last.config) # <<>>
  /\ allocated["a"] # <<>> /\ NoDuplicates(allocated["a"])
  /\ Present(last.replaced)
  /\ Last(allocated["a"]) \in EntryIds(<<[id |-> last.id, entry |-> last.replaced[1]]>>)
  /\ Last(allocated["a"]) \in EntryIds(reg["a"].channels)
  /\ Last(allocated["a"]) \in EntryIds(reg["b"].channels)

\* C8: iterating the Map obtained from getAllChannels yields the entries the
\* registry holds at the time of the iteration, in the registry's insertion
\* order, whatever was registered, merged or cleared since it was obtained.
C8_LiveView ==
  ret.kind = "entries" => ret.items = reg[last.reg].channels

\* the Map was iterated after the registry behind it had changed
C8_Witness ==
  /\ ret.kind = "entries" /\ last.changed
  /\ Len(ret.items) = 2
  /\ CopiedIn("a") # {}

\* C9: no registry call throws, and registering a config with neither send
\* nor receive stores an entry without operations.
C9_NeverRaises ==
  /\ ~raised
  /\ (IsRegister(last) /\ DirsOf(last.config) = <<>>) =>
       /\ Present(getChannel(reg[last.reg], last.id))
       /\ getChannel(reg[last.reg], last.id)[1].operations = [send |-> None, receive |-> None]

\* a config with neither direction was registered
C9_Witness ==
  /\ IsRegister(last) /\ last.config = CfgNeither
  /\ getChannel(reg["a"], last.id) =
       Some([config |-> CfgNeither, handler |-> None,
             operations |-> [send |-> None, receive |-> None]])
  /\ reg["a"].operationCounter = 0

----------------------------------------------------------------------------
(* Properties of the generated document *)

\* the (channel, direction) pairs a registry holds: <<id, direction, operationId>>
OperationsHeld(m) ==
  {<<m[i].id, d, m[i].entry.operations[d][1].operationId>> :
     <<i, d>> \in {p \in (1..Len(m)) \X {"send", "receive"} :
                     /\ Present(m[p[1]].entry.config[p[2]])
                     /\ Present(m[p[1]].entry.operations[p[2]])}}

\* the text '<channelId>_<direction>_message'
MessageKeyText(id, dir) ==
  id \o <<"_">> \o DirText(dir) \o <<"_", "m", "e", "s", "s", "a", "g", "e">>

\* the message keys the caller supplied in options.components
SuppliedMessageKeys(options) ==
  IF Present(options.components) /\ Present(options.components[1].messages)
  THEN ObjKeys(options.components[1].messages[1]) ELSE {}

\* C10: a generated document has exactly one operation per (channel,
\* direction) the registry holds, under the operationId stored in the
\* registry and with that direction as action, and exactly one message per
\* (channel, direction) in components.messages besides those the caller
\* supplied; one channel with send and receive gives 2 operations and 2
\* message keys.
C10_OneOperationPerDirection ==
  ret.kind = "document" =>
    LET held == OperationsHeld(reg[last.reg].channels)
        ops == ret.doc.operations
        made == ObjKeys(ret.doc.components.messages) \ SuppliedMessageKeys(last.options)
    IN  /\ Len(ops) = Cardinality(held)
        /\ ObjKeys(ops) = {h[3] : h \in held}
        /\ \A h \in held : /\ ObjGet(ops, h[3]).action = h[2]
                            /\ ObjGet(ops, h[3]).channel.ref = ChannelsRefText \o h[1]
        /\ made = {MessageKeyText(h[1], h[2]) : h \in held}
        /\ Cardinality(made) = Cardinality(held)
        /\ Len(ret.doc.components.messages) =
             Cardinality(held) + Cardinality(SuppliedMessageKeys(last.options))

\* a document generated from one channel that has send and receive
C10_Witness ==
  /\ ret.kind = "document" /\ last.options = OptionsPlain
  /\ Len(reg["a"].channels) = 1
  /\ reg["a"].channels[1].entry.config = CfgBoth
  /\ Len(ret.doc.operations) = 2
  /\ {ret.doc.operations[i].value.action : i \in 1..2} = {"send", "receive"}
  /\ Cardinality(ObjKeys(ret.doc.components.messages)) = 2

----------------------------------------------------------------------------
(* Properties of the generated document *)

IsDocument(r) == r.kind = "document"

\* C11: every document generate returns carries asyncapi '3.0.0', the info
\* supplied, channels, operations and components, with components.schemas
\* and components.messages present as mappings whatever options.components
\* the caller supplied, and servers exactly when servers was supplied.
C11_DocumentShape ==
  IsDocument(ret) =>
    /\ ret.doc.asyncapi = "3.0.0"
    /\ ret.doc.info = last.options.info
    /\ ret.doc.components.undefinedKeys = {}
    /\ Present(ret.doc.servers) <=> Present(last.options.servers)

\* the JSON pointers under which a document keeps channels, messages and schemas
ChannelsPointer == <<"#", "/", "c", "h", "a", "n", "n", "e", "l", "s", "/">>

MessagesPointer ==
  <<"#", "/", "c", "o", "m", "p", "o", "n", "e", "n", "t", "s", "/",
    "m", "e", "s", "s", "a", "g", "e", "s", "/">>

SchemasPointer ==
  <<"#", "/", "c", "o", "m", "p", "o", "n", "e", "n", "t", "s", "/",
    "s", "c", "h", "e", "m", "a", "s", "/">>

\* the reference is the pointer followed by a key of the mapping
Resolves(reference, pointer, mapping) ==
  /\ Len(reference.ref) > Len(pointer)
  /\ SubSeq(reference.ref, 1, Len(pointer)) = pointer
  /\ ObjHas(mapping, SubSeq(reference.ref, Len(pointer) + 1, Len(reference.ref)))

\* C12: in every document generate returns, the channel reference of every
\* operation names a key of channels, every message reference of an
\* operation and of a channel names a key of components.messages, and every
\* payload or headers reference of a message names a key of
\* components.schemas.
C12_ReferencesResolve ==
  IsDocument(ret) =>
    LET doc == ret.doc
        ops == doc.operations
        chs == doc.channels
        msgs == doc.components.messages
    IN  /\ \A i \in 1..Len(ops) :
             /\ Resolves(ops[i].value.channel, ChannelsPointer, chs)
             /\ \A j \in 1..Len(ops[i].value.messages) :
                  Resolves(ops[i].value.messages[j], MessagesPointer, msgs)
        /\ \A i \in 1..Len(chs) : \A j \in 1..Len(chs[i].value.messages) :
             Resolves(chs[i].value.messages[j].value, MessagesPointer, msgs)
        /\ \A i \in 1..Len(msgs) :
             /\ Present(msgs[i].value.payload) =>
                  Resolves(msgs[i].value.payload[1], SchemasPointer, doc.components.schemas)
             /\ Present(msgs[i].value.headers) =>
                  Resolves(msgs[i].value.headers[1], SchemasPointer, doc.components.schemas)

\* the messages a generate call builds from a channels Map, in the order it
\* builds them: per entry in Map order, send before receive
RECURSIVE MessagesBuilt(_, _)
MessagesBuilt(m, i) ==
  IF i > Len(m) THEN <<>>
  ELSE LET e == m[i].entry
           ds == SelectSeq(Directions,
                           LAMBDA d : Present(e.config[d]) /\ Present(e.operations[d]))
       IN  [k \in 1..Len(ds) |->
              [id |-> m[i].id, dir |-> ds[k], config |-> e.config[ds[k]][1]]]
           \o MessagesBuilt(m, i + 1)

SchemaKeyOf(n) == <<"s", "c", "h", "e", "m", "a", "_">> \o ToDecimal(n)

HeadersKeyOf(n) == <<"h", "e", "a", "d", "e", "r", "s", "_">> \o ToDecimal(n)

SuppliedSchemaKeys(options) ==
  IF Present(options.components) /\ Present(options.components[1].schemas)
  THEN ObjKeys(options.components[1].schemas[1]) ELSE {}

\* the number of payload and headers schemas among the first k messages
RECURSIVE Translated(_, _)
Translated(ms, k) ==
  IF k = 0 THEN 0
  ELSE Translated(ms, k - 1)
       + (IF Present(ms[k].config.payload) THEN 1 ELSE 0)
       + (IF Present(ms[k].config.headers) THEN 1 ELSE 0)

\* C13 as stated: the payload and headers schemas a generate call translates
\* are stored under 'schema_0', 'schema_1', ... in the order translated, one
\* number per payload and one per headers.
C13_OneKeyPerSchema ==
  IsDocument(ret) =>
    LET ms == MessagesBuilt(reg[last.reg].channels, 1)
    IN  ObjKeys(ret.doc.components.schemas) \ SuppliedSchemaKeys(last.options)
          = {SchemaKeyOf(n) : n \in 0..(Translated(ms, Len(ms)) - 1)}

\* C13, amended: the n-th message a generate call builds (n from 0, one per
\* channel and direction, with or without payload and headers) has its
\* payload stored under 'schema_<n>' and its headers under 'headers_<n>',
\* referenced from the message; the call stores no other schema.
C13_KeysPerMessage ==
  IsDocument(ret) =>
    LET ms == MessagesBuilt(reg[last.reg].channels, 1)
        schemas == ret.doc.components.schemas
        written == {SchemaKeyOf(k - 1) : k \in {j \in 1..Len(ms) : Present(ms[j].config.payload)}}
                   \cup
                   {HeadersKeyOf(k - 1) : k \in {j \in 1..Len(ms) : Present(ms[j].config.headers)}}
    IN  /\ \A k \in 1..Len(ms) :
             LET message == ObjGet(ret.doc.components.messages,
                                   MessageKeyText(ms[k].id, ms[k].dir))
                 payload == ms[k].config.payload
                 headers == ms[k].config.headers
             IN  /\ ObjHas(ret.doc.components.messages, MessageKeyText(ms[k].id, ms[k].dir))
                 /\ message.payload =
                      IF Present(payload)
                      THEN Some([ref |-> SchemasPointer \o SchemaKeyOf(k - 1)]) ELSE None
                 /\ message.headers =
                      IF Present(headers)
                      THEN Some([ref |-> SchemasPointer \o HeadersKeyOf(k - 1)]) ELSE None
                 /\ Present(payload) =>
                      /\ ObjHas(schemas, SchemaKeyOf(k - 1))
                      /\ ObjGet(schemas, SchemaKeyOf(k - 1)) = zodToAsyncAPISchema(payload[1])
                 /\ Present(headers) =>
                      /\ ObjHas(schemas, HeadersKeyOf(k - 1))
                      /\ ObjGet(schemas, HeadersKeyOf(k - 1)) = zodToAsyncAPISchema(headers[1])
        /\ written \subseteq ObjKeys(schemas)
        /\ ObjKeys(schemas) \ written \subseteq SuppliedSchemaKeys(last.options)

\* a document of one channel whose send message has payload and headers:
\* its receive payload has number 1
C13_Witness ==
  /\ IsDocument(ret)
  /\ ObjKeys(ret.doc.components.schemas) = {SchemaKeyOf(0), HeadersKeyOf(0), SchemaKeyOf(1)}

IsGenerate(l) == l.op = "generate"

\* C14: two generate calls on the same registry state with the same options
\* have the same outcome and return equal documents: the second call numbers
\* its schemas from 0 again, whatever the first call left in the options
\* object, and every document lists the channels in the registry's current
\* iteration order.
C14_CallLocal ==
  [][/\ (IsGenerate(last) /\ IsGenerate(last') /\ last'.reg = last.reg /\ reg' = reg
         /\ last'.options \in {last.options, ret.options}) =>
          /\ ret'.kind = ret.kind
          /\ IsDocument(ret) => ret'.doc = ret.doc
     /\ (IsGenerate(last') /\ IsDocument(ret')) =>
          [i \in 1..Len(ret'.doc.channels) |-> ret'.doc.channels[i].key]
            = MapKeys(reg'[last'.reg].channels)
    ]_vars

\* a second call with the options object the first call wrote a schema
\* into, on a registry of two channels
C14_Witness ==
  /\ IsGenerate(last) /\ IsDocument(ret)
  /\ SchemaKeyOf(0) \in SuppliedSchemaKeys(last.options)
  /\ Len(ret.doc.channels) = 2
  /\ ObjKeys(ret.doc.components.schemas) = SuppliedSchemaKeys(last.options)

----------------------------------------------------------------------------
(* Properties of the translator *)

IsTranslation(l) == l.op = "zodToAsyncAPISchema"

\* C16: zodToAsyncAPISchema returns a schema object for every schema node,
\* and a node of a kind the translator has no case for (tuple, map, set,
\* null, undefined, any, intersection, lazy) translates to exactly
\* { type: 'object' }.
C16_FallbackObject ==
  IsTranslation(last) =>
    /\ ret.kind = "schema"
    /\ last.schema.typeName \in UnsupportedKinds => ret.value = [type |-> "object"]

\* the keys of a plain object, in order
KeySeq(o) == [i \in 1..Len(o) |-> o[i].key]

\* C17: the translation of an object schema with N fields that are not
\* optional and M optional fields has properties with exactly the N+M field
\* names as keys and a required array of exactly the N names of the fields
\* that are not optional, in declaration order; with N = 0 it has no
\* required key.
C17_RequiredFields ==
  (IsTranslation(last) /\ last.schema.typeName = "ZodObject") =>
    LET shape == last.schema.shape
        names == SelectSeq(shape, LAMBDA f : ~isOptional(f.schema))
    IN  /\ "properties" \in DOMAIN ret.value
        /\ KeySeq(ret.value.properties) = KeySeq(shape)
        /\ IF Len(names) = 0
           THEN "required" \notin DOMAIN ret.value
           ELSE /\ "required" \in DOMAIN ret.value
                /\ ret.value.required = KeySeq(names)

\* C18: the translation of nullable(s) is the translation of s with
\* nullable: true added and every other key as in the translation of s.
C18_NullableOverlay ==
  (IsTranslation(last) /\ last.schema.typeName = "ZodNullable") =>
    LET inner == zodToAsyncAPISchema(last.schema.innerType)
    IN  /\ DOMAIN ret.value = DOMAIN inner \cup {"nullable"}
        /\ ret.value.nullable = TRUE
        /\ \A k \in DOMAIN inner \ {"nullable"} : ret.value[k] = inner[k]

\* C19: a description on a node of a kind the translator has a case for,
\* the optional, nullable and default wrappers included, is the description
\* of that node's translation.
C19_DescriptionKept ==
  (/\ IsTranslation(last)
   /\ last.schema.typeName \notin UnsupportedKinds
   /\ Present(last.schema.description) /\ last.schema.description[1] # "") =>
    /\ "description" \in DOMAIN ret.value
    /\ ret.value.description = last.schema.description[1]

----------------------------------------------------------------------------
(* Properties of mergeAPIDocs *)

\* C20: mergeAPIDocs gives the merged app the AsyncAPI app's own Registry:
\* the merge changes no registry (entries and counters stay), a channel
\* registered afterwards through the merged app's channel() gets the next
\* sequence numbers of that Registry, and the merged app's
\* getAsyncAPIDocument lists every channel that Registry holds, those
\* registered before the merge included.
C20_MergedAppSharesRegistry ==
  [][/\ last'.op = "mergeAPIDocs" =>
          /\ reg' = reg /\ allocated' = allocated
          /\ apps'[last'.openAPIApp].asyncAPIRegistry = apps[last'.asyncAPIApp].asyncAPIRegistry
     /\ (IsRegister(last') /\ last'.via = "rest") =>
          LET r == apps["ws"].asyncAPIRegistry[1]
              dirs == DirsOf(last'.config)
              n == reg[r].operationCounter
          IN  /\ last'.reg = r
              /\ allocated'[r] =
                   allocated[r] \o [i \in 1..Len(dirs) |-> IdText(dirs[i], last'.id, n + i - 1)]
              /\ reg'[r].operationCounter = n + Len(dirs)
     /\ (last'.op = "getAsyncAPIDocument" /\ last'.app = "rest") =>
          /\ IsDocument(ret')
          /\ KeySeq(ret'.doc.channels) = MapKeys(reg'[apps'["ws"].asyncAPIRegistry[1]].channels)
    ]_vars

\* the merged app's document with two channels: the first registered on the
\* AsyncAPI app before the merge (its route was copied), the second through
\* the merged app's channel(), with sequence numbers 0 and 1
C20_Witness ==
  /\ last.op = "getAsyncAPIDocument" /\ last.app = "rest"
  /\ IsDocument(ret) /\ Len(ret.doc.channels) = 2
  /\ Len(apps["rest"].routes) = 2
  /\ apps["rest"].routes[1].handler = "AsyncAPIHono.channel"
  /\ apps["rest"].routes[2].handler = "mergeAPIDocs.channel"
  /\ Len(allocated["a"]) = 2
  /\ Last(allocated["a"][1]) = "0" /\ Last(allocated["a"][2]) = "1"
  /\ reg["a"].operationCounter = 2

----------------------------------------------------------------------------
(* Frame of the generator *)

\* C24: a generate call leaves every Registry as it was: the entries, their
\* operationIds, their order and the operation counter are the same after
\* the call as before it, and so is the list of ids allocated so far, from
\* which the next registration takes its sequence number.
C24_GenerateLeavesRegistry ==
  [][IsGenerate(last') =>
       /\ reg' = reg
       /\ allocated' = allocated
       /\ cleared' = cleared
       /\ \A r \in RegNames : MapKeys(reg'[r].channels) = MapKeys(reg[r].channels)
    ]_vars

\* a document generated from a registry that holds two entries and has
\* allocated two ids
C24_Witness ==
  /\ IsGenerate(last) /\ IsDocument(ret)
  /\ Len(reg["a"].channels) = 2
  /\ reg["a"].operationCounter = 2
  /\ Len(allocated["a"]) = 2
  /\ Len(ret.doc.operations) = 2

\* the key a reference names under a pointer
RefKey(reference, pointer) == SubSeq(reference.ref, Len(pointer) + 1, Len(reference.ref))

\* the payload and headers references of the messages a call built, each
\* with the schema it was made for
SchemaRefs(ms, messages) ==
  {[ref |-> ObjGet(messages, MessageKeyText(ms[p[1]].id, ms[p[1]].dir))[p[2]][1],
    schema |-> ms[p[1]].config[p[2]][1],
    of |-> p] :
     p \in {q \in (1..Len(ms)) \X {"payload", "headers"} : Present(ms[q[1]].config[q[2]])}}

\* C25: within one generate call every payload schema and every headers
\* schema gets a components.schemas key of its own, and every (channel,
\* direction) a components.messages key of its own: the references of two
\* different schemas differ, each reference resolves to the translation of
\* the schema it was made for, and the operations reference as many
\* different messages as the call built, for messages with and without
\* payload or headers.
C25_NoKeyWrittenTwice ==
  IsDocument(ret) =>
    LET ms == MessagesBuilt(reg[last.reg].channels, 1)
        doc == ret.doc
        messages == doc.components.messages
        refs == SchemaRefs(ms, messages)
        ops == doc.operations
    IN  /\ \A k \in 1..Len(ms) : ObjHas(messages, MessageKeyText(ms[k].id, ms[k].dir))
        /\ \A a, b \in refs : a.of # b.of => a.ref # b.ref
        /\ \A a \in refs :
             /\ Resolves(a.ref, SchemasPointer, doc.components.schemas)
             /\ ObjGet(doc.components.schemas, RefKey(a.ref, SchemasPointer))
                  = zodToAsyncAPISchema(a.schema)
        /\ Len(ops) = Len(ms)
        /\ Cardinality({ops[i].value.messages[1].ref : i \in 1..Len(ops)}) = Len(ms)
        /\ \A i \in 1..Len(ops) : Resolves(ops[i].value.messages[1], MessagesPointer, messages)

\* a document of one channel whose send message has neither payload nor
\* headers and whose receive message has a payload: one schema, two messages
C25_Witness ==
  /\ IsDocument(ret)
  /\ Len(reg[last.reg].channels) = 1
  /\ reg[last.reg].channels[1].entry.config = CfgMixed
  /\ ObjKeys(ret.doc.components.schemas) = {SchemaKeyOf(1)}
  /\ Len(ret.doc.operations) = 2

----------------------------------------------------------------------------
(* Registration as one step *)

\* the last n elements of a sequence
Suffix(s, n) == SubSeq(s, Len(s) - n + 1, Len(s))

\* C26: in every state a caller of a shared Registry can observe, between
\* any two calls, the operation counter equals the number of ids allocated
\* since the last clear, the i-th of these ids ends with sequence number
\* i - 1 (so no two registrations got the same number), and right after a
\* registerChannel call the entry stored under its id carries exactly the
\* ids the call allocated.
C26_RegistrationAtomic ==
  /\ \A r \in RegNames :
       /\ reg[r].operationCounter = Len(allocated[r])
       /\ \A i \in 1..Len(allocated[r]) :
            Suffix(allocated[r][i], 1 + Len(ToDecimal(i - 1))) = <<"_">> \o ToDecimal(i - 1)
  /\ IsRegister(last) =>
       LET r == last.reg
           dirs == DirsOf(last.config)
           ids == Suffix(allocated[r], Len(dirs))
           entry == getChannel(reg[r], last.id)
       IN  /\ Len(allocated[r]) >= Len(dirs)
           /\ Present(entry)
           /\ entry[1].config = last.config
           /\ \A d \in {"send", "receive"} :
                Present(entry[1].operations[d]) <=> Present(last.config[d])
           /\ \A i \in 1..Len(dirs) : entry[1].operations[dirs[i]][1].operationId = ids[i]

\* a channel with send and receive was registered while another caller held
\* the Map of the same Registry: the counter is 2 and the entry holds both ids
C26_Witness ==
  /\ IsRegister(last) /\ last.reg = "a" /\ last.config = CfgBoth
  /\ view # None /\ view[1].reg = "a"
  /\ reg["a"].operationCounter = 2
  /\ EntryIds(reg["a"].channels) = {allocated["a"][1], allocated["a"][2]}

----------------------------------------------------------------------------
(* operationIds of the entries a Registry holds *)

\* C27: in every reachable state, after any registerChannel, clear and
\* merge calls, the operations carried by the current entries of a Registry
\* have pairwise different operationIds, also when entries were merged in
\* from a Registry with a counter of its own; so a generated document has
\* one operation per operation the Registry holds, none lost under a shared
\* key.
C27_HeldIdsDistinct ==
  /\ \A r \in RegNames :
       \A g, h \in OperationsHeld(reg[r].channels) : g # h => g[3] # h[3]
  /\ (IsGenerate(last) /\ IsDocument(ret)) =>
       /\ Len(ret.doc.operations) = Cardinality(OperationsHeld(reg[last.reg].channels))
       /\ Cardinality(ObjKeys(ret.doc.operations)) = Len(ret.doc.operations)

\* a document generated from a Registry that holds an operation of its own
\* and one merged in, both with sequence number 0
C27_Witness ==
  /\ IsGenerate(last) /\ IsDocument(ret)
  /\ Cardinality(OperationsHeld(reg["a"].channels)) = 2
  /\ CopiedIn("a") # {}
  /\ Len(allocated["a"]) = 1
  /\ allocated["a"][1] \in EntryIds(reg["a"].channels)
  /\ \A h \in OperationsHeld(reg["a"].channels) : Last(h[3]) = "0"
  /\ Len(ret.doc.operations) = 2

----------------------------------------------------------------------------
(* The options argument of the generator *)

\* C28: a generate call leaves its options argument as it was: the options
\* object the caller passed, with the schemas and messages objects inside
\* options.components, has the same keys and values after the call.
C28_OptionsUnchanged ==
  [][IsGenerate(last') => ret'.options = last'.options]_vars

----------------------------------------------------------------------------
(* AsyncAPIHono.route and AsyncAPIHono.basePath *)

IsRoute(l) == l.op = "route"

\* the channels Map of the Registry that app holds in the apps A and registries R
ChannelsOf(A, R, app) == R[A[app].asyncAPIRegistry[1]].channels

IsGetDocument(l) == l.op = "getAsyncAPIDocument"

\* C29 as stated: once sub was routed into parent, a channel call on sub
\* leaves parent's registry as it is, a channel call on parent leaves sub's
\* registry as it is, and a document of an app lists the channels of that
\* app's registry.
C29_RouteCopiesAtCallTime ==
  [][/\ IsRegister(last') =>
          \A p, s \in RouteAppNames :
            s \in apps[p].mounted =>
              /\ last'.via = s => ChannelsOf(apps', reg', p) = ChannelsOf(apps, reg, p)
              /\ last'.via = p => ChannelsOf(apps', reg', s) = ChannelsOf(apps, reg, s)
     /\ (IsGetDocument(last') /\ IsDocument(ret')) =>
          KeySeq(ret'.doc.channels) = MapKeys(ChannelsOf(apps', reg', last'.app))
    ]_vars

\* C29, amended: route leaves every app with the Registry it had and changes
\* no Registry but parent's; once sub was routed into parent and sub holds
\* a Registry other than parent's, a channel call on sub leaves parent's
\* registry as it is and a channel call on parent leaves sub's registry as
\* it is; a document of an app lists the channels of that app's registry.
C29_RouteCopiesOwnRegistry ==
  [][/\ IsRoute(last') =>
          /\ \A a \in RouteAppNames : apps'[a].asyncAPIRegistry = apps[a].asyncAPIRegistry
          /\ \A r \in RegNames \ {apps[last'.parent].asyncAPIRegistry[1]} : reg'[r] = reg[r]
          /\ allocated' = allocated
     /\ IsRegister(last') =>
          \A p, s \in RouteAppNames :
            (s \in apps[p].mounted /\ apps[p].asyncAPIRegistry # apps[s].asyncAPIRegistry) =>
              /\ last'.via = s => ChannelsOf(apps', reg', p) = ChannelsOf(apps, reg, p)
              /\ last'.via = p => ChannelsOf(apps', reg', s) = ChannelsOf(apps, reg, s)
     /\ (IsGetDocument(last') /\ IsDocument(ret')) =>
          KeySeq(ret'.doc.channels) = MapKeys(ChannelsOf(apps', reg', last'.app))
    ]_vars

\* sub registered a channel after it was routed into parent: sub holds two
\* channels, parent only the one copied at the route call
C29_Witness ==
  /\ IsRegister(last) /\ last.via = "sub"
  /\ "sub" \in apps["parent"].mounted
  /\ Len(reg["b"].channels) = 2
  /\ Len(reg["a"].channels) = 1
  /\ reg["a"].channels[1] = reg["b"].channels[1]
  /\ ~MapHas(reg["a"].channels, last.id)

IsBasePath(l) == l.op = "basePath"

\* C30: basePath() gives the new app the Registry of the app it was called
\* on and changes no Registry; afterwards a channel call through either app
\* registers in that one Registry under the next sequence numbers of its
\* counter, and getAsyncAPIDocument of either app lists every channel the
\* Registry holds, whichever app registered it and whether before or after
\* the basePath() call.
C30_BasePathSharesRegistry ==
  [][/\ IsBasePath(last') =>
          /\ apps'[ret'.app].asyncAPIRegistry = apps[last'.app].asyncAPIRegistry
          /\ Present(apps'[ret'.app].asyncAPIRegistry)
          /\ reg' = reg /\ allocated' = allocated
     /\ (Present(apps["based"].asyncAPIRegistry) /\ IsRegister(last')
         /\ last'.via \in {"parent", "based"}) =>
          LET r == apps["parent"].asyncAPIRegistry[1]
              dirs == DirsOf(last'.config)
              n == reg[r].operationCounter
          IN  /\ last'.reg = r
              /\ apps'["based"].asyncAPIRegistry = Some(r)
              /\ allocated'[r] =
                   allocated[r] \o [i \in 1..Len(dirs) |-> IdText(dirs[i], last'.id, n + i - 1)]
              /\ reg'[r].operationCounter = n + Len(dirs)
              /\ Present(MapGet(ChannelsOf(apps', reg', "parent"), last'.id))
              /\ Present(MapGet(ChannelsOf(apps', reg', "based"), last'.id))
     /\ (Present(apps["based"].asyncAPIRegistry) /\ IsGetDocument(last')
         /\ last'.app \in {"parent", "based"}) =>
          /\ IsDocument(ret')
          /\ KeySeq(ret'.doc.channels) = MapKeys(ChannelsOf(apps', reg', "parent"))
          /\ KeySeq(ret'.doc.channels) = MapKeys(ChannelsOf(apps', reg', "based"))
    ]_vars

\* the document of the basePath app with two channels, one registered
\* through each app (each app bound one route), numbered 0 and 1
C30_Witness ==
  /\ IsGetDocument(last) /\ last.app = "based"
  /\ IsDocument(ret) /\ Len(ret.doc.channels) = 2
  /\ Len(apps["parent"].routes) = 1 /\ Len(apps["based"].routes) = 1
  /\ Len(allocated["a"]) = 2
  /\ Last(allocated["a"][1]) = "0" /\ Last(allocated["a"][2]) = "1"
  /\ EntryIds(reg["a"].channels) = {allocated["a"][1], allocated["a"][2]}
  /\ ret.doc.info = Info

----------------------------------------------------------------------------
(* Routes and requests *)

IsRequest(l) == l.op = "request"

\* the handlers that channel() binds
ChannelHandlers == {"AsyncAPIHono.channel", "mergeAPIDocs.channel"}

\* C22: a channel() call on an app binds one GET route at config.path when
\* it is given a handler, and leaves the routes of every app as they are
\* when it is not; a request that reaches a channel route is answered with
\* status 400 unless its upgrade header is exactly 'websocket', and with
\* status 426 if it is; a request changes no registry and no app, raises
\* nothing, and is answered in the same way when the request before it was
\* rejected.
C22_ChannelRoute ==
  [][/\ (IsRegister(last') /\ last'.via \in ServeAppNames) =>
          LET before == apps[last'.via].routes
              after == apps'[last'.via].routes
          IN  IF Present(last'.handler)
              THEN /\ Len(after) = Len(before) + 1
                   /\ SubSeq(after, 1, Len(before)) = before
                   /\ Last(after).method = "GET"
                   /\ Last(after).path = last'.config.path
                   /\ Last(after).handler \in ChannelHandlers
              ELSE apps' = apps
     /\ IsRequest(last') =>
          LET routes == apps[last'.app].routes
              bound == \E i \in 1..Len(routes) :
                         /\ routes[i].handler \in ChannelHandlers
                         /\ RouteMatches(routes[i], last'.method, last'.path)
          IN  /\ reg' = reg /\ allocated' = allocated /\ cleared' = cleared
              /\ apps' = apps /\ raised' = raised
              /\ bound => ret'.status = IF last'.upgrade = Some("websocket") THEN 426 ELSE 400
              /\ ret'.status \in {400, 426} => bound
    ]_vars

\* the merged app answered a request that has the upgrade header with the
\* placeholder, right after a request without the header was rejected
C22_Witness ==
  /\ IsRequest(last) /\ last.app = "rest" /\ last.afterRejection
  /\ last.upgrade = Some("websocket")
  /\ ret.status = 426
  /\ Len(apps["rest"].routes) >= 1

IsDocs(l) == l.op = "docs"

\* the app has a route of the method and path that the handler named answers
HasRoute(routes, method, path, handler) ==
  \E i \in 1..Len(routes) :
    /\ routes[i].method = method /\ routes[i].path = path /\ routes[i].handler = handler

\* C23: after docs(openapiPath, asyncapiPath) the app has a GET route at
\* asyncapiPath and a GET route at openapiPath; from then on a GET request
\* to asyncapiPath is answered with the AsyncAPI document of the app's
\* registry and a GET request to openapiPath with the OpenAPI document.
C23_DocsServesBoth ==
  [][/\ IsDocs(last') =>
          /\ HasRoute(apps'[last'.app].routes, "GET", last'.asyncapiPath, "AsyncAPIHono.doc")
          /\ HasRoute(apps'[last'.app].routes, "GET", last'.openapiPath, "UnifiedAPIHono.docs")
     /\ (IsRequest(last') /\ last'.method = "GET"
         /\ HasRoute(apps[last'.app].routes, "GET", "/asyncapi.json", "AsyncAPIHono.doc")) =>
          /\ last'.path = "/asyncapi.json" =>
               /\ ret'.status = 200
               /\ ret'.json.asyncapi = "3.0.0"
               /\ KeySeq(ret'.json.channels) = MapKeys(ChannelsOf(apps, reg, last'.app))
          /\ last'.path = "/openapi.json" =>
               /\ ret'.status = 200
               /\ ret'.json = OpenAPIDocument
    ]_vars

====
